---- MODULE Spec2Model ----
(***************************************************************************)
(* Model of src/newday.py: DoctoraliaPhoneExtractor.                       *)
(*   clean_phone        - pure text normalisation                          *)
(*   extract_phones     - per-profile extraction over a page of widgets    *)
(*   process_excel_file - the batch loop over the dataset rows             *)
(* Texts are sequences of one-character strings, so that the string        *)
(* operations of the source (re.sub, strip, replace, slicing, re.findall)  *)
(* are computed and not assumed.                                           *)
(***************************************************************************)
EXTENDS Integers, Sequences, FiniteSets, TLC

\* ------------------------------------------------------------------ bounds
MaxTextLen == 11
MaxWidgets == 3
MaxRows == 11
MaxOdd == 1

\* ------------------------------------------------------- program constants
SaveEvery == 10
MaxPhones == 2

\* ------------------------------------------------------------ text helpers
DigitChars == {"0", "1", "2", "3", "4", "5", "6", "7", "8", "9"}
SpaceChars == {" "}

IsDigit(c) == c \in DigitChars

RECURSIVE DigitsOf(_)
\* re.sub(r'\D', '', text): every non-digit character is removed
DigitsOf(t) ==
  IF t = <<>> THEN <<>>
  ELSE IF IsDigit(Head(t)) THEN <<Head(t)>> \o DigitsOf(Tail(t))
       ELSE DigitsOf(Tail(t))

None == <<"None">>

\* faulty variant: longer digit runs are truncated instead of rejected
clean_phone_Truncating(text) ==
  LET digits == DigitsOf(text)
  IN  IF Len(digits) >= 10
      THEN SubSeq(digits, 1, 2) \o <<" ">> \o SubSeq(digits, 3, 6) \o <<" ">>
             \o SubSeq(digits, 7, 10)
      ELSE None

\* f"{digits[:2]} {digits[2:6]} {digits[6:]}" when len(digits) == 10, else None
clean_phone(text) ==
  LET digits == DigitsOf(text)
  IN  IF Len(digits) = 10
      THEN SubSeq(digits, 1, 2) \o <<" ">> \o SubSeq(digits, 3, 6) \o <<" ">>
             \o SubSeq(digits, 7, Len(digits))
      ELSE None

RECURSIVE LStrip(_)
LStrip(t) ==
  IF t # <<>> /\ Head(t) \in SpaceChars THEN LStrip(Tail(t)) ELSE t

RECURSIVE RStrip(_)
RStrip(t) ==
  IF t # <<>> /\ t[Len(t)] \in SpaceChars THEN RStrip(SubSeq(t, 1, Len(t) - 1)) ELSE t

\* str.strip()
Strip(t) == RStrip(LStrip(t))

StartsWith(t, p) == Len(t) >= Len(p) /\ SubSeq(t, 1, Len(p)) = p

\* "needle in text"
Contains(t, p) == \E i \in 1..(Len(t) - Len(p) + 1) : SubSeq(t, i, i + Len(p) - 1) = p

RECURSIVE Remove(_, _)
\* str.replace(p, ''): leftmost non-overlapping occurrences removed
Remove(t, p) ==
  IF t = <<>> THEN <<>>
  ELSE IF StartsWith(t, p) THEN Remove(SubSeq(t, Len(p) + 1, Len(t)), p)
       ELSE <<Head(t)>> \o Remove(Tail(t), p)

Dots == <<".", ".", ".">>
TelPrefix == <<"t", "e", "l", ":">>

AllDigits(t) == \A i \in 1..Len(t) : IsDigit(t[i])

\* length of the match of \d{2}\s?\d{4}\s?\d{4} at the start of t, 0 if none
\* (a whitespace character is never a digit, so the greedy \s? never backtracks)
MatchLen(t) ==
  LET a == 2
      s1 == IF Len(t) > a /\ t[a + 1] \in SpaceChars THEN 1 ELSE 0
      b == a + s1 + 4
      s2 == IF Len(t) > b /\ t[b + 1] \in SpaceChars THEN 1 ELSE 0
      c == b + s2 + 4
  IN  IF Len(t) >= c
         /\ AllDigits(SubSeq(t, 1, a))
         /\ AllDigits(SubSeq(t, a + s1 + 1, b))
         /\ AllDigits(SubSeq(t, b + s2 + 1, c))
      THEN c ELSE 0

RECURSIVE FindAll(_)
\* re.findall(r'\d{2}\s?\d{4}\s?\d{4}', text): non-overlapping, left to right
FindAll(t) ==
  IF t = <<>> THEN <<>>
  ELSE LET n == MatchLen(t)
       IN  IF n > 0 THEN <<SubSeq(t, 1, n)>> \o FindAll(SubSeq(t, n + 1, Len(t)))
           ELSE FindAll(Tail(t))

InSeq(x, s) == \E i \in 1..Len(s) : s[i] = x

IsPrefix(s, t) == Len(s) <= Len(t) /\ SubSeq(t, 1, Len(s)) = s

NoDup(s) == \A i, j \in 1..Len(s) : i # j => s[i] # s[j]

\* the canonical form DD DDDD DDDD
IsCanonical(p) ==
  /\ Len(p) = 12
  /\ \A i \in 1..12 : IF i \in {3, 8} THEN p[i] = " " ELSE IsDigit(p[i])


\* ------------------------------------------------------------------- state
VARIABLES
  raw, cleaned,            \* clean_phone: the text handed in and the value returned
  pc,                      \* position in extract_phones / process_excel_file
  page,                    \* the widgets of the page the site served for this task
  phone_containers,        \* result of find_elements (line 104)
  container_index,         \* 1-based position in phone_containers
  extracted_phones,        \* line 93
  modal,                   \* widget whose overlay element the wait resolved, 0 if none
  openModals,              \* page state: widgets whose overlay is open
  ret,                     \* value returned by extract_phones
  navs, visited, clicked, waited, paced, obstructed, failSnaps, navFailed, source,
                           \* observations of the current task: driver.get calls,
                           \* widgets read / activated / waited for / paced, a
                           \* trigger activated under an open overlay, the list at
                           \* each widget failure, navigation failed, and the
                           \* widget that contributed each accumulated phone
  batch, odd,              \* run inside process_excel_file; deviations spent so far
  urls, Phone1, Phone2,    \* the dataframe: column 0 and the two phone columns
  start_row, max_rows, index, end_index, processed_count,
  disk, driver, outcome,   \* persisted copy, browser session, how the run ended
  calls, recorded, saves, saveFailed, savedAt
                           \* observations of the run: rows handed to
                           \* extract_phones, the writes of lines 268-269, to_excel
                           \* calls that succeeded, rows whose to_excel raised (-1:
                           \* the final one), counters at the last successful write

cleanVars == <<raw, cleaned>>
taskVars == <<page, phone_containers, container_index, extracted_phones, modal,
              openModals, ret>>
taskObs == <<navs, visited, clicked, waited, paced, obstructed, failSnaps, navFailed,
             source>>
runVars == <<urls, Phone1, Phone2, start_row, max_rows, index, end_index,
             processed_count, disk, driver, outcome>>
runObs == <<calls, recorded, saves, saveFailed, savedAt>>
vars == <<cleanVars, pc, taskVars, taskObs, batch, odd, runVars, runObs>>

\* ------------------------------------------------------------ the web page
NoEl == <<"absent">>

Widget(span, button, target, appears, tel, bold, text, close) ==
  [span |-> span, button |-> button, target |-> target, appears |-> appears,
   tel |-> tel, bold |-> bold, text |-> text, close |-> close]

T_P1 == <<"9", "8", " ", "7", "6", "5", "4", " ", "3", "2", "1", "0">>
T_P2 == <<"5", "5", " ", "1", "2", "3", "4", " ", "5", "6", "7", "8">>
T_P3 == <<"9", "1", " ", "2", "3", "4", "5", " ", "6", "7", "8", "0">>
T_Padded == <<" ", "5", "5", "-", "1", "2", "3", "4", "-", "5", "6", "7", "8", " ">>
T_Nine == <<"1", "2", "3", "-", "4", "5", "6", "-", "8", "9", "0">>
T_Cut1 == <<"9", "8", " ", "7", "6", "5", "4", " ", "3", ".", ".", ".">>
T_Cut2 == <<"5", "5", " ", "1", "2", "3", "4", " ", "5", ".", ".", ".">>
T_Cut3 == <<"9", "1", " ", "2", "3", "4", "5", " ", "6", ".", ".", ".">>
T_Tel3 == TelPrefix \o <<"9", "1", "2", "3", "4", "5", "6", "7", "8", "0">>
T_Tel1 == TelPrefix \o <<"9", "8", "7", "6", "5", "4", "3", "2", "1", "0">>
T_TelLong == TelPrefix \o <<"+", "5", "2", "1", "9", "8", "7", "6", "5", "4", "3", "2", "1", "0">>
T_Word == <<"T", "e", "l">>
T_Digits2 == <<"5", "5", "1", "2", "3", "4", "5", "6", "7", "8">>
T_Free == T_Word \o <<" ">> \o T_P2 \o <<" ", "o", " ">> \o T_P3

WVisible == Widget(T_P1, FALSE, "none", FALSE, <<>>, <<>>, <<>>, FALSE)
WPadded == Widget(T_Padded, TRUE, "id", TRUE, <<T_Tel3>>, <<>>, <<>>, TRUE)
WNine == Widget(T_Nine, FALSE, "none", FALSE, <<>>, <<>>, <<>>, FALSE)
WNoSpan == Widget(NoEl, TRUE, "id", TRUE, <<T_Tel3>>, <<>>, <<>>, TRUE)
WTel == Widget(T_Cut3, TRUE, "id", TRUE, <<T_Tel3>>, <<>>, T_P3, TRUE)
WBold == Widget(T_Cut1, TRUE, "none", TRUE, <<T_TelLong, T_Tel1>>,
                <<T_Word, T_Digits2>>, T_Word, FALSE)
WText == Widget(T_Cut2, TRUE, "id", TRUE, <<>>, <<T_Word>>, T_Free, TRUE)
WNoModal == Widget(T_Cut1, TRUE, "id", FALSE, <<>>, <<>>, <<>>, FALSE)
WNoButton == Widget(T_Cut2, FALSE, "none", FALSE, <<>>, <<>>, <<>>, FALSE)

WidgetKinds == {WVisible, WPadded, WNine, WNoSpan, WTel, WBold, WText, WNoModal,
                WNoButton}

SeqsUpTo(S, n) == UNION {[1..k -> S] : k \in 0..n}

\* pages a single task is checked on, and the pages served inside a batch run
Pages == SeqsUpTo(WidgetKinds, MaxWidgets)
NominalPage == <<WNoSpan, WNoModal, WBold, WNoButton, WTel>>
BatchPages == {NominalPage, <<>>, <<WVisible>>}


\* ------------------------------------------------- nondeterminism budget
\* Inside a batch run every deviation from the nominal row (an odd cell, a page
\* other than NominalPage, a raised exception) is counted and capped by MaxOdd;
\* a single task is explored without a cap.
CanOdd(n) == ~batch \/ odd + n <= MaxOdd
Spent(n) == IF batch THEN odd + n ELSE odd

Min(S) == CHOOSE x \in S : \A y \in S : x <= y

\* ---------------------------------------------------------- extract_phones
\* extract_phones touches neither the dataframe nor the run's bookkeeping
TaskFrame == UNCHANGED <<cleanVars, batch, runVars, runObs>>

AfterReturn == IF batch THEN "record" ELSE "returned"

\* lines 94-101 and the handlers 223-228
GetOk ==
  /\ pc = "get"
  /\ TaskFrame
  /\ \E p \in (IF batch THEN BatchPages ELSE Pages) :
       /\ CanOdd(IF p = NominalPage THEN 0 ELSE 1)
       /\ odd' = Spent(IF p = NominalPage THEN 0 ELSE 1)
       /\ page' = p
  /\ navs' = navs + 1
  /\ pc' = "find"
  /\ UNCHANGED <<source, phone_containers, container_index, extracted_phones, modal,
                 openModals, ret, visited, clicked, waited, paced, obstructed,
                 failSnaps, navFailed>>

\* faulty variant: the handlers of lines 223-228 are missing, the exception reaches the
\* row boundary (lines 280-283)
GetRaises_Escapes ==
  /\ pc = "get"
  /\ batch
  /\ CanOdd(1)
  /\ odd' = Spent(1)
  /\ navs' = navs + 1
  /\ navFailed' = TRUE
  /\ Phone1' = [Phone1 EXCEPT ![index + 1] =
                  [kind |-> "Error", val |-> <<"WebDriverException">>]]
  /\ index' = index + 1
  /\ pc' = "row"
  /\ UNCHANGED <<cleanVars, batch, source, page, phone_containers, container_index,
                 extracted_phones, modal, openModals, ret, visited, clicked, waited,
                 paced, obstructed, failSnaps, urls, Phone2, start_row, max_rows,
                 end_index, processed_count, disk, driver, outcome, runObs>>

\* faulty variant: a navigation that raised is attempted again
GetRaises_Retry ==
  /\ pc = "get"
  /\ TaskFrame
  /\ CanOdd(1)
  /\ odd' = Spent(1)
  /\ navs' = navs + 1
  /\ navFailed' = TRUE
  /\ pc' = "get"
  /\ UNCHANGED <<source, page, phone_containers, container_index, extracted_phones, modal,
                 openModals, ret, visited, clicked, waited, paced, obstructed, failSnaps>>

\* driver.get raises (page unreachable, session fault)
GetRaises ==
  /\ pc = "get"
  /\ TaskFrame
  /\ CanOdd(1)
  /\ odd' = Spent(1)
  /\ navs' = navs + 1
  /\ navFailed' = TRUE
  /\ ret' = <<>>
  /\ pc' = AfterReturn
  /\ UNCHANGED <<source, page, phone_containers, container_index, extracted_phones, modal,
                 openModals, visited, clicked, waited, paced, obstructed, failSnaps>>

\* the page-ready wait (line 98) times out or faults after the load
ReadyTimeout ==
  /\ pc = "get"
  /\ TaskFrame
  /\ CanOdd(1)
  /\ odd' = Spent(1)
  /\ \E p \in (IF batch THEN {NominalPage} ELSE Pages) : page' = p
  /\ navs' = navs + 1
  /\ navFailed' = TRUE
  /\ ret' = <<>>
  /\ pc' = AfterReturn
  /\ UNCHANGED <<source, phone_containers, container_index, extracted_phones, modal,
                 openModals, visited, clicked, waited, paced, obstructed, failSnaps>>

\* lines 103-106
FindContainers ==
  /\ pc = "find"
  /\ TaskFrame
  /\ phone_containers' = page
  /\ container_index' = 1
  /\ pc' = "iter"
  /\ UNCHANGED <<page, extracted_phones, modal, openModals, ret, taskObs, odd>>

\* find_elements raises: handler 217-218, then line 220
FindRaises ==
  /\ pc = "find"
  /\ TaskFrame
  /\ CanOdd(1)
  /\ odd' = Spent(1)
  /\ pc' = "ret"
  /\ UNCHANGED <<taskVars, taskObs>>

\* faulty variant: the handler starts the list afresh
Abandon_Clears(why) ==
  /\ failSnaps' = failSnaps \cup {[at |-> container_index, acc |-> extracted_phones,
                                  why |-> why]}
  /\ extracted_phones' = <<>>
  /\ container_index' = container_index + 1
  /\ pc' = "iter"

\* the handlers 208-213: the iteration is abandoned, the loop continues
Abandon(why) ==
  /\ failSnaps' = failSnaps \cup {[at |-> container_index, acc |-> extracted_phones,
                                  why |-> why]}
  /\ extracted_phones' = extracted_phones
  /\ container_index' = container_index + 1
  /\ pc' = "iter"

\* line 206 followed by the next iteration
Pace ==
  /\ paced' = Append(paced, container_index)
  /\ container_index' = container_index + 1
  /\ pc' = "iter"

\* faulty variant: the loop goes on after two phones were accumulated
InLoop_NoCap == pc = "iter" /\ container_index <= Len(phone_containers)

InLoop == pc = "iter" /\ container_index <= Len(phone_containers)
                      /\ Len(extracted_phones) < MaxPhones

\* the for loop is exhausted, or the break of lines 110-111
LoopEnd ==
  /\ pc = "iter"
  /\ TaskFrame
  /\ \/ container_index > Len(phone_containers)
     \/ Len(extracted_phones) >= MaxPhones
  /\ pc' = "ret"
  /\ UNCHANGED <<taskVars, taskObs, odd>>

\* the widget credited with a phone the step appended
Credit(src, before, after, i) == IF after # before THEN Append(src, i) ELSE src

\* faulty variant: the membership test of lines 153/202 is dropped
AddIfNew_NoDedup(acc, c) == IF c # None THEN Append(acc, c) ELSE acc

\* faulty variant: a new phone is put in front of the accumulated ones
AddIfNew_InFront(acc, c) == IF c # None /\ ~InSeq(c, acc) THEN <<c>> \o acc ELSE acc

AddIfNew(acc, c) == IF c # None /\ ~InSeq(c, acc) THEN Append(acc, c) ELSE acc

\* lines 113-117 and 200-206: text without the truncation marker
IterVisible ==
  /\ InLoop
  /\ TaskFrame
  /\ LET w == phone_containers[container_index]
     IN  /\ w.span # NoEl
         /\ ~Contains(Strip(w.span), Dots)
         /\ extracted_phones' = AddIfNew(extracted_phones, clean_phone(Strip(w.span)))
  /\ source' = Credit(source, extracted_phones, extracted_phones', container_index)
  /\ visited' = Append(visited, container_index)
  /\ Pace
  /\ UNCHANGED <<page, phone_containers, modal, openModals, ret, navs, clicked,
                 waited, obstructed, failSnaps, navFailed, odd>>

\* faulty variant: the test of line 117 is dropped, every widget is revealed
IterHidden_Always ==
  /\ InLoop
  /\ TaskFrame
  /\ phone_containers[container_index].span # NoEl
  /\ visited' = Append(visited, container_index)
  /\ pc' = "button"
  /\ UNCHANGED <<source, taskVars, navs, clicked, waited, paced, obstructed, failSnaps,
                 navFailed, odd>>

\* lines 113-118: text with the truncation marker
IterHidden ==
  /\ InLoop
  /\ TaskFrame
  /\ LET w == phone_containers[container_index]
     IN  /\ w.span # NoEl
         /\ Contains(Strip(w.span), Dots)
  /\ visited' = Append(visited, container_index)
  /\ pc' = "button"
  /\ UNCHANGED <<source, taskVars, navs, clicked, waited, paced, obstructed, failSnaps,
                 navFailed, odd>>

\* line 113 raises NoSuchElementException: handler 208-210
IterNoSpan ==
  /\ InLoop
  /\ TaskFrame
  /\ phone_containers[container_index].span = NoEl
  /\ visited' = Append(visited, container_index)
  /\ Abandon("error")
  /\ UNCHANGED <<source, page, phone_containers, modal, openModals, ret,
                 navs, clicked, waited, paced, obstructed, navFailed, odd>>

\* lines 113-115 raise anything else (stale element, session fault): 211-213
IterRaises ==
  /\ InLoop
  /\ TaskFrame
  /\ CanOdd(1)
  /\ odd' = Spent(1)
  /\ visited' = Append(visited, container_index)
  /\ Abandon("error")
  /\ UNCHANGED <<source, page, phone_containers, modal, openModals, ret,
                 navs, clicked, waited, paced, obstructed, navFailed>>

\* lines 120-126: the reveal trigger is found and activated
ClickReveal ==
  /\ pc = "button"
  /\ TaskFrame
  /\ LET w == phone_containers[container_index]
     IN  /\ w.button
         /\ openModals' = IF w.appears THEN openModals \cup {container_index}
                          ELSE openModals
  /\ clicked' = Append(clicked, container_index)
  /\ obstructed' = (obstructed \/ openModals # {})
  /\ pc' = "wait"
  /\ UNCHANGED <<source, page, phone_containers, container_index, extracted_phones, modal,
                 ret, navs, visited, waited, paced, failSnaps, navFailed, odd>>

\* line 120 raises NoSuchElementException: handler 208-210
NoButton ==
  /\ pc = "button"
  /\ TaskFrame
  /\ ~phone_containers[container_index].button
  /\ Abandon("error")
  /\ UNCHANGED <<source, page, phone_containers, modal, openModals, ret,
                 navs, visited, clicked, waited, paced, obstructed, navFailed, odd>>

\* lines 120-125 raise anything else before the activation: handler 211-213
ButtonRaises ==
  /\ pc = "button"
  /\ TaskFrame
  /\ CanOdd(1)
  /\ odd' = Spent(1)
  /\ Abandon("error")
  /\ UNCHANGED <<source, page, phone_containers, modal, openModals, ret,
                 navs, visited, clicked, waited, paced, obstructed, navFailed>>

\* lines 129-143: the element the bounded wait resolves, 0 on timeout.  With a
\* data-id in data-target the wait looks for that overlay; without one it takes
\* the first shown phone overlay of the document.
Resolve(w, i, open) ==
  IF w.target = "id" THEN (IF i \in open THEN i ELSE 0)
  ELSE (IF open # {} THEN Min(open) ELSE 0)

\* lines 128-146: the overlay is present within the wait
ModalFound ==
  /\ pc = "wait"
  /\ TaskFrame
  /\ LET m == Resolve(phone_containers[container_index], container_index, openModals)
     IN  /\ m # 0
         /\ modal' = m
  /\ waited' = waited \cup {container_index}
  /\ pc' = "scrape"
  /\ UNCHANGED <<source, page, phone_containers, container_index, extracted_phones,
                 openModals, ret, navs, visited, clicked, paced, obstructed,
                 failSnaps, navFailed, odd>>

\* faulty variant: the TimeoutException is left to the handler of line 215, outside the loop
ModalTimeout_Aborts ==
  /\ pc = "wait"
  /\ TaskFrame
  /\ Resolve(phone_containers[container_index], container_index, openModals) = 0
  /\ waited' = waited \cup {container_index}
  /\ failSnaps' = failSnaps \cup {[at |-> container_index, acc |-> extracted_phones,
                                  why |-> "timeout"]}
  /\ pc' = "ret"
  /\ UNCHANGED <<source, page, phone_containers, container_index, extracted_phones,
                 modal, openModals, ret, navs, visited, clicked, paced, obstructed,
                 navFailed, odd>>

\* TimeoutException of lines 137/141: handler 197-198, then line 206
ModalTimeout ==
  /\ pc = "wait"
  /\ TaskFrame
  /\ Resolve(phone_containers[container_index], container_index, openModals) = 0
  /\ waited' = waited \cup {container_index}
  /\ failSnaps' = failSnaps \cup {[at |-> container_index, acc |-> extracted_phones,
                                  why |-> "timeout"]}
  /\ Pace
  /\ UNCHANGED <<source, page, phone_containers, extracted_phones, modal, openModals, ret,
                 navs, visited, clicked, obstructed, navFailed, odd>>

\* the wait raises anything else: handler 211-213
WaitRaises ==
  /\ pc = "wait"
  /\ TaskFrame
  /\ CanOdd(1)
  /\ odd' = Spent(1)
  /\ waited' = waited \cup {container_index}
  /\ Abandon("error")
  /\ UNCHANGED <<source, page, phone_containers, modal, openModals, ret,
                 navs, visited, clicked, paced, obstructed, navFailed>>

\* faulty variant: the first candidate that normalises wins, accumulated or not
TierPick_FirstValid(cands, acc) ==
  LET valid == {i \in 1..Len(cands) : clean_phone(cands[i]) # None}
  IN  IF valid = {} THEN None ELSE clean_phone(cands[Min(valid)])

RECURSIVE TierPick(_, _)
\* one tier of lines 150-179: the first candidate that normalises and is not
\* yet accumulated, None if the tier has none
TierPick(cands, acc) ==
  IF cands = <<>> THEN None
  ELSE LET c == clean_phone(Head(cands))
       IN  IF c # None /\ ~InSeq(c, acc) THEN c ELSE TierPick(Tail(cands), acc)

TelTexts(m) == [i \in 1..Len(m.tel) |-> Strip(Remove(m.tel[i], TelPrefix))]
BoldTexts(m) == [i \in 1..Len(m.bold) |-> Strip(m.bold[i])]

\* the first tier that yields a phone wins (phone_found, lines 148-170)
FirstOf(a, b, c) == IF a # None THEN a ELSE IF b # None THEN b ELSE c

\* lines 148-179: tel links, then bold text, then the digit pattern
\* (each tier's texts are bound as values once, so that evaluating ENABLED does
\* not recompute them at every use)
ScrapePick(m, acc) ==
  CHOOSE r \in {FirstOf(TierPick(tel, acc), TierPick(bold, acc), TierPick(found, acc)) :
                  tel \in {TelTexts(m)}, bold \in {BoldTexts(m)},
                  found \in {FindAll(m.text)}} : TRUE

\* faulty variant: the tel tier and the bold tier both append
ScrapeModal_EveryTier ==
  /\ pc = "scrape"
  /\ TaskFrame
  /\ LET m == phone_containers[modal]
         first == AddIfNew(extracted_phones, TierPick(TelTexts(m), extracted_phones))
     IN  extracted_phones' = AddIfNew(first, TierPick(BoldTexts(m), first))
  /\ source' = Credit(source, extracted_phones, extracted_phones', container_index)
  /\ pc' = "close"
  /\ UNCHANGED <<page, phone_containers, container_index, modal, openModals, ret,
                 navs, visited, clicked, waited, paced, obstructed, failSnaps,
                 navFailed, odd>>

ScrapeModal ==
  /\ pc = "scrape"
  /\ TaskFrame
  /\ extracted_phones' =
       AddIfNew(extracted_phones, ScrapePick(phone_containers[modal], extracted_phones))
  /\ source' = Credit(source, extracted_phones, extracted_phones', container_index)
  /\ pc' = "close"
  /\ UNCHANGED <<page, phone_containers, container_index, modal, openModals, ret,
                 navs, visited, clicked, waited, paced, obstructed, failSnaps,
                 navFailed, odd>>

\* lines 149-171 raise (the overlay was re-rendered, session fault): 211-213
ScrapeRaises ==
  /\ pc = "scrape"
  /\ TaskFrame
  /\ CanOdd(1)
  /\ odd' = Spent(1)
  /\ Abandon("error")
  /\ UNCHANGED <<source, page, phone_containers, modal, openModals, ret,
                 navs, visited, clicked, waited, paced, obstructed, navFailed>>

\* lines 181-184, 195, 206: the close control is found and activated
CloseByControl ==
  /\ pc = "close"
  /\ TaskFrame
  /\ phone_containers[modal].close
  /\ openModals' = openModals \ {modal}
  /\ Pace
  /\ UNCHANGED <<source, page, phone_containers, extracted_phones, modal, ret, navs,
                 visited, clicked, waited, obstructed, failSnaps, navFailed, odd>>

\* what reaching the bare except of line 185 costs: nothing when the overlay has
\* no close control, one raised exception when it has
FallbackCost == IF phone_containers[modal].close THEN 1 ELSE 0

\* lines 185-195, 206: the overlay is hidden and the backdrops removed
CloseForced ==
  /\ pc = "close"
  /\ TaskFrame
  /\ CanOdd(FallbackCost)
  /\ odd' = Spent(FallbackCost)
  /\ openModals' = openModals \ {modal}
  /\ Pace
  /\ UNCHANGED <<source, page, phone_containers, extracted_phones, modal, ret, navs,
                 visited, clicked, waited, obstructed, failSnaps, navFailed>>

\* line 186 raises inside the except clause: handler 211-213
HideRaises ==
  /\ pc = "close"
  /\ TaskFrame
  /\ CanOdd(FallbackCost + 1)
  /\ odd' = Spent(FallbackCost + 1)
  /\ Abandon("error")
  /\ UNCHANGED <<source, page, phone_containers, modal, openModals, ret,
                 navs, visited, clicked, waited, paced, obstructed, navFailed>>

Take(s, n) == SubSeq(s, 1, IF Len(s) < n THEN Len(s) ELSE n)

\* lines 220-221
Return ==
  /\ pc = "ret"
  /\ TaskFrame
  /\ ret' = Take(extracted_phones, MaxPhones)
  /\ pc' = AfterReturn
  /\ UNCHANGED <<page, phone_containers, container_index, extracted_phones, modal,
                 openModals, taskObs, odd>>

ExtractStep ==
  \/ GetOk \/ GetRaises \/ ReadyTimeout
  \/ FindContainers \/ FindRaises
  \/ LoopEnd \/ IterVisible \/ IterHidden \/ IterNoSpan \/ IterRaises
  \/ ClickReveal \/ NoButton \/ ButtonRaises
  \/ ModalFound \/ ModalTimeout \/ WaitRaises
  \/ ScrapeModal \/ ScrapeRaises
  \/ CloseByControl \/ CloseForced \/ HideRaises
  \/ Return

\* the state at the entry of extract_phones (line 93)
TaskEntry ==
  /\ page = <<>>
  /\ phone_containers = <<>>
  /\ container_index = 0
  /\ extracted_phones = <<>>
  /\ modal = 0
  /\ openModals = {}
  /\ ret = <<>>
  /\ navs = 0
  /\ visited = <<>>
  /\ clicked = <<>>
  /\ waited = {}
  /\ paced = <<>>
  /\ obstructed = FALSE
  /\ failSnaps = {}
  /\ navFailed = FALSE
  /\ source = <<>>

NeverSaved == [count |-> 0, index |-> 0]

RunIdle ==
  /\ urls = <<>>
  /\ Phone1 = <<>>
  /\ Phone2 = <<>>
  /\ start_row = 0
  /\ max_rows = 0
  /\ index = 0
  /\ end_index = 0
  /\ processed_count = 0
  /\ disk = <<>>
  /\ driver = "none"
  /\ outcome = "none"
  /\ calls = <<>>
  /\ recorded = <<>>
  /\ saves = 0
  /\ saveFailed = {}
  /\ savedAt = NeverSaved

\* one call of extract_phones on any page of Pages
InitTask ==
  /\ pc = "get"
  /\ batch = FALSE
  /\ odd = 0
  /\ raw = <<>>
  /\ cleaned = None
  /\ TaskEntry
  /\ RunIdle

NextTask == ExtractStep

SpecTask == InitTask /\ [][NextTask]_vars


\* ------------------------------------------------------------- clean_phone
\* characters the raw texts are built from: two digits and a separator
TextChars == {"5", "8", "-"}

\* clean_phone applied to every text over TextChars of at most MaxTextLen characters
InitClean ==
  /\ pc = "clean"
  /\ batch = FALSE
  /\ odd = 0
  /\ raw = <<>>
  /\ cleaned = clean_phone(<<>>)
  /\ TaskEntry
  /\ RunIdle

CleanNext ==
  /\ pc = "clean"
  /\ Len(raw) < MaxTextLen
  /\ \E c \in TextChars : raw' = Append(raw, c)
  /\ cleaned' = clean_phone(raw')
  /\ UNCHANGED <<pc, taskVars, taskObs, batch, odd, runVars, runObs>>

SpecClean == InitClean /\ [][CleanNext]_vars


\* ------------------------------------------------------ process_excel_file
\* cells of the two phone columns
Cell(k, v) == [kind |-> k, val |-> v]
Blank == Cell("", <<>>)
PhoneCell(p) == Cell("phone", p)
NoPhoneFound == Cell("No phone found", <<>>)
NoURL == Cell("No URL", <<>>)
ErrorCell(e) == Cell("Error", <<e>>)
OldCell == Cell("phone", T_P2)

\* cells of column 0: a URL with a scheme, a bare host/path, a missing value
\* (NaN), an empty string, a cell that is not a string
UrlKinds == {"http", "bare", "nan", "empty", "number"}

\* faulty variant: only the pd.isna half of the test
IsBlankUrl_NanOnly(u) == u = "nan"

\* pd.isna(profile_url) or not profile_url (line 258)
IsBlankUrl(u) == u \in {"nan", "empty"}

\* Column 0 is read once per row (line 256) and never written: the content of a
\* cell is drawn when the loop reads it, and is "unread" until then.
UrlCost(k) == IF k = "http" THEN 0 ELSE 1

\* (start_row, max_rows) of a call; max_rows = 0 stands for None (both are falsy)
\* the defaults of line 230: start_row=2, and max_rows=None (written 0)
DefaultStartRow == 2
DefaultMaxRows == 0

Configs == {<<2, 0>>, <<1, 3900>>, <<1, 3>>, <<2, 3>>}

Frame == [written |-> FALSE, p1 |-> <<>>, p2 |-> <<>>]

InitRun ==
  /\ pc = "start"
  /\ batch = TRUE
  /\ raw = <<>>
  /\ cleaned = None
  /\ TaskEntry
  /\ \E n \in {0, MaxRows} : urls = [i \in 1..n |-> "unread"]
  /\ odd = 0
  /\ \E old \in BOOLEAN :
       /\ Phone1 = [i \in 1..Len(urls) |-> IF old THEN OldCell ELSE Blank]
       /\ Phone2 = [i \in 1..Len(urls) |-> IF old THEN OldCell ELSE Blank]
  /\ \E c \in Configs : start_row = c[1] /\ max_rows = c[2]
  /\ index = 0
  /\ end_index = 0
  /\ processed_count = 0
  /\ disk = Frame
  /\ driver = "none"
  /\ outcome = "none"
  /\ calls = <<>>
  /\ recorded = <<>>
  /\ saves = 0
  /\ saveFailed = {}
  /\ savedAt = NeverSaved

MinOf(a, b) == IF a < b THEN a ELSE b

\* line 252
EndIndex(len, start_index, mr) ==
  IF mr # 0 THEN MinOf(len, start_index + mr) ELSE len

\* pd.read_excel raises (line 236): handler 288-290, finally 291-294
ReadFails ==
  /\ pc = "start"
  /\ CanOdd(1)
  /\ odd' = Spent(1)
  /\ outcome' = "raised"
  /\ pc' = "finally"
  /\ UNCHANGED <<cleanVars, taskVars, taskObs, batch, urls, Phone1, Phone2, start_row,
                 max_rows, index, end_index, processed_count, disk, driver, runObs>>

\* lines 238-240
ReadEmpty ==
  /\ pc = "start"
  /\ Len(urls) = 0
  /\ outcome' = "empty"
  /\ pc' = "finally"
  /\ UNCHANGED <<cleanVars, taskVars, taskObs, batch, odd, urls, Phone1, Phone2,
                 start_row, max_rows, index, end_index, processed_count, disk, driver,
                 runObs>>

\* lines 236-252 with setup_driver (36-72) succeeding
SetupOk ==
  /\ pc = "start"
  /\ Len(urls) > 0
  /\ driver' = "live"
  /\ index' = start_row - 1
  /\ end_index' = EndIndex(Len(urls), start_row - 1, max_rows)
  /\ processed_count' = 0
  /\ pc' = "row"
  /\ UNCHANGED <<cleanVars, taskVars, taskObs, batch, odd, urls, Phone1, Phone2,
                 start_row, max_rows, disk, outcome, runObs>>

\* setup_driver raises: webdriver.Chrome fails (no session) or execute_script
\* fails after self.driver was assigned (lines 64-72)
SetupFails ==
  /\ pc = "start"
  /\ Len(urls) > 0
  /\ CanOdd(1)
  /\ odd' = Spent(1)
  /\ \E created \in BOOLEAN : driver' = IF created THEN "live" ELSE "none"
  /\ outcome' = "raised"
  /\ pc' = "finally"
  /\ UNCHANGED <<cleanVars, taskVars, taskObs, batch, urls, Phone1, Phone2, start_row,
                 max_rows, index, end_index, processed_count, disk, runObs>>

InRange == pc = "row" /\ index < end_index

\* the call of extract_phones starts from the state TaskEntry (line 93)
EnterTask ==
  /\ page' = <<>>
  /\ phone_containers' = <<>>
  /\ container_index' = 0
  /\ extracted_phones' = <<>>
  /\ modal' = 0
  /\ openModals' = {}
  /\ ret' = <<>>
  /\ navs' = 0
  /\ visited' = <<>>
  /\ clicked' = <<>>
  /\ waited' = {}
  /\ paced' = <<>>
  /\ obstructed' = FALSE
  /\ failSnaps' = {}
  /\ navFailed' = FALSE
  /\ source' = <<>>

\* 'https://' + ... needs a string (line 263): NaN and numbers are not strings
IsString(u) == u \in {"http", "bare", "empty"}

\* lines 256-261
RowBlank ==
  /\ InRange
  /\ \E k \in {u \in UrlKinds : IsBlankUrl(u)} :
       /\ CanOdd(UrlCost(k))
       /\ odd' = Spent(UrlCost(k))
       /\ urls' = [urls EXCEPT ![index + 1] = k]
  /\ Phone1' = [Phone1 EXCEPT ![index + 1] = NoURL]
  /\ index' = index + 1
  /\ UNCHANGED <<cleanVars, pc, taskVars, taskObs, batch, Phone2, start_row,
                 max_rows, end_index, processed_count, disk, driver, outcome, runObs>>

\* faulty variant: no handler at the row boundary, the exception leaves the loop
RowNotString_Escapes ==
  /\ InRange
  /\ \E k \in {u \in UrlKinds : ~IsBlankUrl(u) /\ ~IsString(u)} :
       /\ CanOdd(UrlCost(k))
       /\ odd' = Spent(UrlCost(k))
       /\ urls' = [urls EXCEPT ![index + 1] = k]
  /\ outcome' = "raised"
  /\ pc' = "finally"
  /\ UNCHANGED <<cleanVars, taskVars, taskObs, batch, Phone1, Phone2, start_row,
                 max_rows, index, end_index, processed_count, disk, driver, runObs>>

\* line 263 raises AttributeError on a cell that is not a string: 280-283
RowNotString ==
  /\ InRange
  /\ \E k \in {u \in UrlKinds : ~IsBlankUrl(u) /\ ~IsString(u)} :
       /\ CanOdd(UrlCost(k))
       /\ odd' = Spent(UrlCost(k))
       /\ urls' = [urls EXCEPT ![index + 1] = k]
  /\ Phone1' = [Phone1 EXCEPT ![index + 1] = ErrorCell("AttributeError")]
  /\ index' = index + 1
  /\ UNCHANGED <<cleanVars, pc, taskVars, taskObs, batch, Phone2, start_row,
                 max_rows, end_index, processed_count, disk, driver, outcome, runObs>>

\* lines 263-266: extract_phones is entered (line 93)
RowCall ==
  /\ InRange
  /\ \E k \in {u \in UrlKinds : ~IsBlankUrl(u) /\ IsString(u)} :
       /\ CanOdd(UrlCost(k))
       /\ odd' = Spent(UrlCost(k))
       /\ urls' = [urls EXCEPT ![index + 1] = k]
  /\ calls' = Append(calls, index)
  /\ EnterTask
  /\ pc' = "get"
  /\ UNCHANGED <<cleanVars, batch, Phone1, Phone2, start_row, max_rows, index,
                 end_index, processed_count, disk, driver, outcome, recorded, saves,
                 saveFailed, savedAt>>

\* line 268 and line 269
FirstCell(phones) == IF phones # <<>> THEN PhoneCell(phones[1]) ELSE NoPhoneFound
SecondCell(phones) == IF Len(phones) > 1 THEN PhoneCell(phones[2]) ELSE Blank

\* faulty variant: the checkpoint comes one row late
SaveDue_Late(count) == count % (SaveEvery + 1) = 0

\* line 274
SaveDue(count) == count % SaveEvery = 0

Written(row) == [row |-> row, p1 |-> FirstCell(ret), p2 |-> SecondCell(ret),
                 nav |-> navFailed]

\* lines 268-278; the checkpoint of line 275, when due, succeeds
RecordRow ==
  /\ pc = "record"
  /\ Phone1' = [Phone1 EXCEPT ![index + 1] = FirstCell(ret)]
  /\ Phone2' = [Phone2 EXCEPT ![index + 1] = SecondCell(ret)]
  /\ recorded' = Append(recorded, Written(index))
  /\ processed_count' = processed_count + 1
  /\ IF SaveDue(processed_count')
     THEN /\ disk' = [written |-> TRUE, p1 |-> Phone1', p2 |-> Phone2']
          /\ saves' = saves + 1
          /\ savedAt' = [count |-> processed_count', index |-> index + 1]
     ELSE UNCHANGED <<disk, saves, savedAt>>
  /\ index' = index + 1
  /\ pc' = "row"
  /\ UNCHANGED <<cleanVars, taskVars, taskObs, batch, odd, urls, start_row, max_rows,
                 end_index, driver, outcome, calls, saveFailed>>

\* lines 268-275 with to_excel raising (file locked, disk full): 280-283
RecordSaveFails ==
  /\ pc = "record"
  /\ SaveDue(processed_count + 1)
  /\ CanOdd(1)
  /\ odd' = Spent(1)
  /\ Phone1' = [Phone1 EXCEPT ![index + 1] = ErrorCell("to_excel")]
  /\ Phone2' = [Phone2 EXCEPT ![index + 1] = SecondCell(ret)]
  /\ recorded' = Append(recorded, Written(index))
  /\ processed_count' = processed_count + 1
  /\ saveFailed' = saveFailed \cup {index}
  /\ index' = index + 1
  /\ pc' = "row"
  /\ UNCHANGED <<cleanVars, taskVars, taskObs, batch, urls, start_row, max_rows,
                 end_index, disk, driver, outcome, calls, saves, savedAt>>

\* faulty variant: the run ends without the write of line 285
FinalSave_NoWrite ==
  /\ pc = "row"
  /\ index >= end_index
  /\ outcome' = "completed"
  /\ pc' = "finally"
  /\ UNCHANGED <<cleanVars, taskVars, taskObs, batch, odd, urls, Phone1, Phone2,
                 start_row, max_rows, index, end_index, processed_count, disk, driver,
                 runObs>>

\* line 285 after the loop
FinalSave ==
  /\ pc = "row"
  /\ index >= end_index
  /\ disk' = [written |-> TRUE, p1 |-> Phone1, p2 |-> Phone2]
  /\ saves' = saves + 1
  /\ savedAt' = [count |-> processed_count, index |-> index]
  /\ outcome' = "completed"
  /\ pc' = "finally"
  /\ UNCHANGED <<cleanVars, taskVars, taskObs, batch, odd, urls, Phone1, Phone2,
                 start_row, max_rows, index, end_index, processed_count, driver, calls,
                 recorded, saveFailed>>

\* line 285 raises: handler 288-290
FinalSaveFails ==
  /\ pc = "row"
  /\ index >= end_index
  /\ CanOdd(1)
  /\ odd' = Spent(1)
  /\ saveFailed' = saveFailed \cup {-1}
  /\ outcome' = "raised"
  /\ pc' = "finally"
  /\ UNCHANGED <<cleanVars, taskVars, taskObs, batch, urls, Phone1, Phone2, start_row,
                 max_rows, index, end_index, processed_count, disk, driver, calls,
                 recorded, saves, savedAt>>

\* faulty variant: the session is released only when nothing was raised
Finally_OnSuccessOnly ==
  /\ pc = "finally"
  /\ driver' = IF driver = "live" /\ outcome # "raised" THEN "quit" ELSE driver
  /\ pc' = "done"
  /\ UNCHANGED <<cleanVars, taskVars, taskObs, batch, odd, urls, Phone1, Phone2,
                 start_row, max_rows, index, end_index, processed_count, disk, outcome,
                 runObs>>

\* lines 291-294
Finally ==
  /\ pc = "finally"
  /\ driver' = IF driver = "live" THEN "quit" ELSE driver
  /\ pc' = "done"
  /\ UNCHANGED <<cleanVars, taskVars, taskObs, batch, odd, urls, Phone1, Phone2,
                 start_row, max_rows, index, end_index, processed_count, disk, outcome,
                 runObs>>

RunStep ==
  \/ ReadFails \/ ReadEmpty \/ SetupOk \/ SetupFails
  \/ RowBlank \/ RowNotString \/ RowCall
  \/ RecordRow \/ RecordSaveFails
  \/ FinalSave \/ FinalSaveFails
  \/ Finally

Next == RunStep \/ ExtractStep

Spec == InitRun /\ [][Next]_vars

\* one thread runs the statements in sequence and every wait is bounded (lines
\* 98, 101, 126, 137, 141, 206, 278): a run that can take a step takes it
\* where the run stands: every step moves it
position == <<pc, index, container_index>>

SpecFair == InitRun /\ [][Next]_vars /\ WF_position(Next)


\* ------------------------------------------------------------- properties
DigitCount(t) == Cardinality({i \in 1..Len(t) : t[i] \in DigitChars})
OnlyDigits(t) == SelectSeq(t, LAMBDA c : c \in DigitChars)

\* C1: whatever the page and whatever fails, extract_phones returns a list of 0
\* to 2 phones, each canonical, and no canonical string twice.
C1_ResultBounded ==
  pc = "returned" =>
    /\ Len(ret) \in 0..2
    /\ NoDup(ret)
    /\ \A i \in 1..Len(ret) : IsCanonical(ret[i])

\* a page that offers the same number twice and a second one, two phones returned
C1_Witness ==
  /\ pc = "returned"
  /\ Len(page) = 3
  /\ page[1] = WVisible /\ page[2] = WVisible
  /\ Len(ret) = 2

\* C2: clean_phone returns a value only for texts with exactly 10 digits, and
\* the value is those 10 digits, in order, grouped 2+4+4 with single spaces;
\* any other digit count gives None.
C2_CleanPhone ==
  pc = "clean" =>
    /\ cleaned # None => DigitCount(raw) = 10
    /\ DigitCount(raw) # 10 => cleaned = None
    /\ cleaned # None =>
         /\ IsCanonical(cleaned)
         /\ OnlyDigits(cleaned) = OnlyDigits(raw)

\* a text with a separator inside 10 digits is normalised
C2_Witness ==
  /\ pc = "clean"
  /\ Len(raw) = 11
  /\ DigitCount(raw) = 10
  /\ cleaned # None

\* C3: whenever a reveal trigger is activated, no overlay opened for an earlier
\* widget of the task is still open.
C3_NoOverlayLeftOpen == ~obstructed

\* C4: a failure inside one widget's iteration does not end the task and loses
\* nothing: the loop has moved past the widget, and the list accumulated before
\* the failure is a prefix of the accumulated list and of the returned list.
C4_FailureKeepsPhones ==
  \A f \in failSnaps :
    /\ container_index > f.at
    /\ pc \in {"iter", "button", "wait", "scrape", "close", "ret", "returned"}
    /\ IsPrefix(f.acc, extracted_phones)
    /\ pc = "returned" => IsPrefix(f.acc, ret)

\* a widget fails after a phone was accumulated, a later widget adds a second
C4_Witness ==
  /\ pc = "returned"
  /\ Len(ret) = 2
  /\ \E f \in failSnaps : f.why = "error" /\ Len(f.acc) = 1

\* C5: when the overlay of a hidden widget is not present within the wait, that
\* widget contributes nothing, every remaining widget is still read, in document
\* order (until two phones are accumulated), and the task returns its list.
C5_TimeoutSkipsWidget ==
  \A f \in failSnaps :
    f.why = "timeout" =>
      /\ ~InSeq(f.at, source)
      /\ container_index > f.at
      /\ pc \in {"ret", "returned"} =>
           \/ Len(extracted_phones) >= MaxPhones
           \/ \A j \in (f.at + 1)..Len(phone_containers) : InSeq(j, visited)
      /\ pc = "returned" => ret = extracted_phones
      /\ \A a, b \in 1..Len(visited) : a < b => visited[a] < visited[b]

\* the first widget's overlay never appears, a later widget yields a phone
C5_Witness ==
  /\ pc = "returned"
  /\ \E f \in failSnaps : f.why = "timeout" /\ f.at = 1
  /\ Len(ret) >= 1
  /\ Len(phone_containers) = 3

HasMarker(t) == \E i \in 1..(Len(t) - 2) : t[i] = "." /\ t[i + 1] = "." /\ t[i + 2] = "."

\* C6: a widget whose displayed text has no truncation marker is never
\* activated and never waited for; what it contributes is its displayed text
\* normalised, and only when that was not accumulated before.
C6_VisibleShortCircuit ==
  \A i \in 1..Len(phone_containers) :
    LET w == phone_containers[i]
    IN  (w.span # NoEl /\ ~HasMarker(w.span)) =>
          /\ ~InSeq(i, clicked)
          /\ i \notin waited
          /\ \A k \in 1..Len(source) :
               source[k] = i =>
                 /\ k <= Len(extracted_phones)
                 /\ extracted_phones[k] = clean_phone(Strip(w.span))
                 /\ \A m \in 1..(k - 1) : extracted_phones[m] # extracted_phones[k]

\* a visible widget that also carries a reveal trigger contributed its text
C6_Witness ==
  /\ pc = "returned"
  /\ Len(phone_containers) >= 2
  /\ phone_containers[2] = WPadded
  /\ InSeq(2, source)
  /\ InSeq(1, clicked)


Last(q) == q[Len(q)]
RunOver == pc \in {"finally", "done"}
\* every row of the range after row i (1-based) has been read
LaterRowsRead(i) == \A j \in (i + 1)..end_index : urls[j] # "unread"

\* C7: a navigation failure ends only its own task: extract_phones returns the
\* empty list, lines 268-269 record the row as having no phone, and the loop
\* moves on to the following rows.
C7_NavFailureIsolated ==
  /\ (navFailed /\ pc = "record") => ret = <<>>
  /\ (navFailed /\ pc \in {"row", "finally", "done"}) =>
       /\ recorded # <<>>
       /\ Last(recorded).nav
       /\ Last(recorded).row = Last(calls)
  /\ \A k \in 1..Len(recorded) :
       LET r == recorded[k]
       IN  r.nav =>
             /\ r.p1 = NoPhoneFound /\ r.p2 = Blank
             /\ Phone1[r.row + 1] = NoPhoneFound \/ r.row \in saveFailed
             /\ Phone2[r.row + 1] = Blank
             /\ index > r.row
             /\ RunOver => LaterRowsRead(r.row + 1)

\* a row whose navigation failed was recorded and a later row was recorded too
C7_Witness ==
  \E k \in 1..Len(recorded) : recorded[k].nav /\ k < Len(recorded)

\* C8: a row whose URL cell is missing or empty gets the no-URL sentinel, is
\* never handed to extract_phones, and the loop goes on with the next row.
C8_BlankRowSkipped ==
  \A i \in 1..Len(urls) :
    urls[i] \in {"nan", "empty"} =>
      /\ Phone1[i] = NoURL
      /\ ~InSeq(i - 1, calls)
      /\ \A k \in 1..Len(recorded) : recorded[k].row # i - 1
      /\ index >= i
      /\ RunOver => LaterRowsRead(i)

\* a blank row, and the row after it handed to extract_phones
C8_Witness ==
  \E i \in 1..Len(urls) : urls[i] \in {"nan", "empty"} /\ InSeq(i, calls)

\* C9: an exception raised while a row is processed is caught at the row
\* boundary: the row's first phone column holds the error sentinel with the
\* description and every later row of the range is still processed.
C9_RowErrorContained ==
  \A i \in 1..Len(urls) :
    (urls[i] = "number" \/ (i - 1) \in saveFailed) =>
      /\ Phone1[i].kind = "Error"
      /\ Phone1[i].val \in {<<"AttributeError">>, <<"to_excel">>}
      /\ index >= i
      /\ RunOver => LaterRowsRead(i)

\* a row that raised, and the row after it handed to extract_phones
C9_Witness ==
  \E i \in 1..Len(urls) :
    /\ urls[i] = "number" \/ (i - 1) \in saveFailed
    /\ InSeq(i, calls)

MaxOf(a, b) == IF a > b THEN a ELSE b

\* rows the loop has dealt with since the last successful write
RowsSinceWrite == index - MaxOf(savedAt.index, start_row - 1)

C11_SessionReleased ==
  /\ pc = "done" => driver # "live"
  /\ (pc = "done" /\ (calls # <<>> \/ outcome = "completed")) => driver = "quit"
  /\ (pc \in {"row", "record"} \/ (batch /\ pc \in {"get", "find", "iter", "button",
        "wait", "scrape", "close", "ret"})) => driver = "live"

\* setup_driver raised after webdriver.Chrome had returned: the session is quit
C11_Witness ==
  /\ pc = "done"
  /\ outcome = "raised"
  /\ calls = <<>>
  /\ index = 0
  /\ driver = "quit"

\* C12 as stated: when a run is over the dataset has been written at least once.
C12_AlwaysPersisted == pc = "done" => disk.written

\* C12: every run ends. A run that entered the row loop goes through its whole
\* range whatever rows fail and ends only after attempting the final write; when
\* that write succeeds the file holds the dataset as the run left it. A run that
\* could not read the file, found it empty or could not start the driver, or
\* whose final write raised, ends with the writes made so far, possibly none.
C12_CompletesAndPersists ==
  /\ <>(pc = "done")
  /\ [][position' # position]_vars
  /\ [](pc = "row" => <>(pc = "finally" /\ index >= end_index))
  /\ []((RunOver /\ end_index > 0) =>
          /\ index >= end_index
          /\ outcome = "completed" \/ -1 \in saveFailed)
  /\ []((RunOver /\ outcome = "completed") =>
          /\ saves >= 1
          /\ disk = [written |-> TRUE, p1 |-> Phone1, p2 |-> Phone2])
  /\ []((RunOver /\ outcome # "completed") => (disk.written <=> saves >= 1))

\* a run with an error row among rows with phones completes and is persisted
C12_Witness ==
  /\ pc = "done"
  /\ outcome = "completed"
  /\ disk.written
  /\ \E i \in 1..Len(Phone1) : disk.p1[i].kind = "Error"
  /\ \E i \in 1..Len(Phone1) : disk.p1[i] = PhoneCell(T_P1)

\* the data rows (1-based positions in the dataset) whose URL cell the loop read
RowsRead == {i \in 1..Len(urls) : urls[i] # "unread"}

\* C13: when the row loop is over, the rows processed are consecutive and number
\* at most max_rows; with the default start_row the first data row of the
\* dataset is among them, and with the default max_rows the last one is.
C13_RowRange ==
  (RunOver /\ end_index > 0) =>
    /\ \A i, j \in RowsRead : \A k \in i..j : k \in RowsRead
    /\ max_rows # DefaultMaxRows => Cardinality(RowsRead) <= max_rows
    /\ start_row = DefaultStartRow => 1 \in RowsRead
    /\ max_rows = DefaultMaxRows => Len(urls) \in RowsRead

Increasing(q) == \A a, b \in 1..Len(q) : a < b => q[a] < q[b]
InTask == pc \in {"get", "find", "iter", "button", "wait", "scrape", "close", "ret"}

\* C14: within a task the widgets are visited in document order (the k-th visit
\* is the k-th widget), a step only ever appends to the accumulated phones, the
\* widgets credited with them are in increasing order, and the list returned is
\* the accumulated list from its start; across tasks extract_phones is called
\* for increasing rows, the rows recorded are the rows called, in that order,
\* and while a task runs every earlier call has already been recorded.
C14_OrderKept ==
  /\ [](\A k \in 1..Len(visited) : visited[k] = k)
  /\ [](Len(source) = Len(extracted_phones) /\ Increasing(source))
  /\ [][extracted_phones' = <<>> \/ IsPrefix(extracted_phones, extracted_phones')]_vars
  /\ [](pc \in {"returned", "record"} => IsPrefix(ret, extracted_phones))
  /\ [](Increasing(calls))
  /\ [](\A k \in 1..Len(recorded) : recorded[k].row = calls[k])
  /\ []((batch /\ InTask) => Len(recorded) = Len(calls) - 1)
  /\ []((batch /\ ~InTask /\ pc # "record") => Len(recorded) = Len(calls))
  /\ [][(batch /\ navs' = navs + 1) => Len(recorded) = Len(calls) - 1]_vars

\* two rows recorded in order, the second with the phones of the third and the
\* fifth widget of its page
C14_Witness ==
  /\ pc = "row"
  /\ Len(recorded) = 2
  /\ recorded[1].row < recorded[2].row
  /\ source = <<3, 5>>
  /\ recorded[2].p1 = PhoneCell(T_P1)
  /\ recorded[2].p2 = PhoneCell(T_P3)
  /\ Phone1[recorded[2].row + 1] = PhoneCell(T_P1)

\* C15: whenever a widget has been visited after another one, the pacing delay of
\* line 206 was executed for the earlier one, whatever its outcome.
C15_PacedBetweenWidgets ==
  \A a, b \in 1..Len(visited) : a < b => InSeq(visited[a], paced)

\* the current widget has just been credited with the last accumulated phone
CreditedNow == source # <<>> /\ Last(source) = container_index
\* the accumulated phones before the current widget's overlay was scraped
AccBefore ==
  IF CreditedNow THEN SubSeq(extracted_phones, 1, Len(extracted_phones) - 1)
  ELSE extracted_phones
\* the candidates of an overlay in priority order, each as clean_phone returns it
Cleaned(m) ==
  LET cands == TelTexts(m) \o BoldTexts(m) \o FindAll(m.text)
  IN  [i \in 1..Len(cands) |-> clean_phone(cands[i])]

\* C16 as stated: the first candidate, in priority order, that normalization
\* accepts is the phone resolved, and it is added only if it is not accumulated
\* yet; when it is, the widget contributes nothing.
C16_FirstMatchThenDedup ==
  pc = "close" =>
    LET cl == Cleaned(phone_containers[modal])
        valid == {i \in 1..Len(cl) : cl[i] # None}
    IN  extracted_phones =
          IF valid = {} \/ InSeq(cl[Min(valid)], AccBefore) THEN AccBefore
          ELSE Append(AccBefore, cl[Min(valid)])

\* C16: the candidates of the overlay found are taken in the order tel links,
\* bold texts, pattern matches of the text; the first one that normalization
\* accepts and that is not accumulated yet is appended, rejected and already
\* accumulated candidates alike being passed over; without such a candidate the
\* widget contributes nothing.
C16_FirstNewMatchWins ==
  pc = "close" =>
    LET cl == Cleaned(phone_containers[modal])
        fresh == {i \in 1..Len(cl) : cl[i] # None /\ ~InSeq(cl[i], AccBefore)}
    IN  extracted_phones =
          IF fresh = {} THEN AccBefore ELSE Append(AccBefore, cl[Min(fresh)])

\* the tel link of the second widget repeats the first widget's phone and its
\* bold text gives another one, which is accumulated
C16_Witness ==
  /\ pc = "close"
  /\ container_index = 2
  /\ page[1] = WVisible
  /\ page[2] = WBold
  /\ extracted_phones = <<T_P1, T_P2>>
  /\ source = <<1, 2>>

\* C17: once two phones are accumulated no widget after the one that gave the
\* second is read, clicked or waited for, the list holds exactly those two, and
\* they are what the task returns.
C17_StopsAtTwo ==
  Len(extracted_phones) >= MaxPhones =>
    /\ Len(extracted_phones) = MaxPhones
    /\ \A k \in 1..Len(visited) : visited[k] <= source[MaxPhones]
    /\ \A k \in 1..Len(clicked) : clicked[k] <= source[MaxPhones]
    /\ \A j \in waited : j <= source[MaxPhones]
    /\ pc \in {"returned", "record"} => ret = extracted_phones

\* three widgets with three distinct numbers: the third one is never read
C17_Witness ==
  /\ pc = "returned"
  /\ page = <<WVisible, WPadded, WTel>>
  /\ ret = <<T_P1, T_P2>>
  /\ visited = <<1, 2>>
  /\ clicked = <<>>

\* C18: in one call of extract_phones the URL is navigated to at most once, no
\* widget is visited twice and no reveal trigger is activated twice, whatever
\* failed; and process_excel_file calls extract_phones at most once per row.
C18_NoRetry ==
  /\ navs <= 1
  /\ NoDup(visited)
  /\ NoDup(clicked)
  /\ \A k \in 1..Len(clicked) : InSeq(clicked[k], visited)
  /\ NoDup(calls)
  /\ (batch /\ InTask /\ pc # "get") => navs = 1

\* a row whose navigation failed is recorded without phone and is not called
\* again: the next row is being processed
C18_Witness ==
  /\ batch
  /\ pc = "scrape"
  /\ Len(calls) = 2
  /\ Len(recorded) = 1
  /\ recorded[1].nav
  /\ recorded[1].p1 = NoPhoneFound
  /\ navs = 1
  /\ clicked = <<2, 3>>

\* C19: every accumulated phone is credited to one visited widget and no widget
\* is credited twice, so the list is never longer than the number of widgets
\* visited; the list at an abandoned widget is the start of every later list;
\* and what is returned is no longer either.
C19_OnePhonePerWidget ==
  /\ Len(source) = Len(extracted_phones)
  /\ NoDup(source)
  /\ \A k \in 1..Len(source) : InSeq(source[k], visited)
  /\ Len(extracted_phones) <= Len(visited)
  /\ \A f \in failSnaps : IsPrefix(f.acc, extracted_phones)
  /\ pc \in {"returned", "record"} => Len(ret) <= Len(visited)

\* an overlay with two tel links and two bold texts gives one phone
C19_Witness ==
  /\ pc = "returned"
  /\ page = <<WBold>>
  /\ Len(page[1].tel) = 2
  /\ Len(page[1].bold) = 2
  /\ visited = <<1>>
  /\ clicked = <<1>>
  /\ ret = <<T_P1>>

\* the row loop has run to its end (line 285 is reached)
LoopOver == RunOver /\ end_index > 0 /\ index >= end_index
\* 1-based positions of the rows of range(start_index, end_index)
RangeRows == start_row..end_index

\* C20: when the row loop is over, every row of the range holds in Phone1 a
\* canonical phone or one of the three sentinels; Phone2 is filled only where
\* Phone1 holds the first phone of the extraction that also returned Phone2; and
\* the rows outside the range hold in both columns what they held at the start.
C20_RowCells ==
  LoopOver =>
    /\ \A i \in RangeRows :
         /\ Phone1[i].kind \in {"phone", "No phone found", "No URL", "Error"}
         /\ Phone1[i].kind = "phone" => IsCanonical(Phone1[i].val)
         /\ Phone2[i] # Blank =>
              /\ Phone1[i].kind = "phone"
              /\ \E k \in 1..Len(recorded) :
                   /\ recorded[k].row = i - 1
                   /\ recorded[k].p1 = Phone1[i]
                   /\ recorded[k].p2 = Phone2[i]
    /\ \A i \in (1..Len(urls)) \ RangeRows :
         /\ Phone1[i] = Phone2[i]
         /\ Phone1[i] \in {Blank, OldCell}
         /\ \A j \in (1..Len(urls)) \ RangeRows : Phone1[j] = Phone1[i]


====
